---- MODULE Spec2Model ----
(***************************************************************************)
(* Model of aphorist-mcp's authentication core:                            *)
(*   - AuthState (auth.ts): the human session token and the per-agent      *)
(*     token cache with lazy refresh;                                      *)
(*   - browserLogin (browser-login.ts): the one-shot local callback        *)
(*     listener raced against a timeout;                                   *)
(*   - the "login" tool handler of server.ts.                              *)
(* Time is in milliseconds.  Agent tokens are identified by the serial     *)
(* number of the issuer call that minted them.                             *)
(***************************************************************************)
EXTENDS Integers, Sequences, FiniteSets, TLC

\* ------------------------------------------------------------------ bounds
MaxTicks == 1
MaxMints == 2
MaxConns == 1

\* ------------------------------------------------------- program constants
TOKEN_REFRESH_MARGIN_MS == 5 * 60 * 1000

\* The clock advances in half-margin steps, so that a remaining lifetime can
\* be below, exactly at, and above the margin.
TickMs == TOKEN_REFRESH_MARGIN_MS \div 2

\* JavaScript null, as a string distinct from every token value.
NULL == "NULL"

\* Values a caller may pass to setUserToken(token: string).
UserTokens == {"", "u1", "u2"}

AgentIds == {"bot1", "bot2"}

\* Lifetimes, in clock steps, of the credentials the issuer answers with:
\* exactly the margin and more than the margin (less than the margin is what
\* either has left after the clock has advanced).
Lifetimes == {2, 3}

\* Values of process.env.APHORIST_USER_TOKEN (NULL: not set).
EnvValues == {NULL, "", "u1"}

\* Login attempts: two invocations of the "login" tool, which may overlap or
\* follow one another.
Attempts == {1, 2}

\* Ports the operating system may assign to listen(0, ...).
Ports == {49152, 49153}

\* Requests a client may send to the callback listener: the path, and the value
\* of url.searchParams.get("token") (NULL: no such parameter).
Requests ==
  {[path |-> "/callback", token |-> t] : t \in {NULL, "", "u1", "u2"}}
    \cup {[path |-> "/favicon.ico", token |-> NULL]}

\* `!value` of JavaScript for a string-or-null value.
Falsy(v) == v = NULL \/ v = ""

VARIABLES
  userToken,     \* AuthState.userToken
  agentTokens,   \* AuthState.agentTokens : Map<agentId, CachedToken>
  now,           \* Date.now()
  inflight,      \* getAgentToken calls suspended at the await of the issuer
  mintCalls,     \* history: number of generateAgentToken calls made so far
  mintsAtClear,  \* history: issuer calls made before the latest clearAgentTokens
  lastRet,       \* history: outcome of the getAgentToken call that settled last
  tool,          \* per attempt: position/result of the login tool handler
  outcome,       \* per attempt: the promise browserLogin returns
  timeout,       \* per attempt: the setTimeout timer
  server,        \* per attempt: the http.Server
  conns,         \* per attempt: connections the server has accepted and not closed
  browser,       \* per attempt: the open(loginUrl) launch
  loginUrl,      \* per attempt: the login URL built and written to stderr
  lastResp       \* history: how the latest HTTP request to a listener was answered

authVars == <<agentTokens, now, inflight, mintCalls, mintsAtClear, lastRet>>

loginVars == <<tool, outcome, timeout, server, conns, browser, loginUrl, lastResp>>

vars == <<userToken, agentTokens, now, inflight, mintCalls, mintsAtClear, lastRet,
          tool, outcome, timeout, server, conns, browser, loginUrl, lastResp>>

\* ------------------------------------------------------------ Map helpers
EmptyMap == <<>>

MapHas(m, k) == k \in DOMAIN m

MapSet_DropsOthers(m, k, v) == [x \in {k} |-> v]

MapSet(m, k, v) == [x \in (DOMAIN m) \cup {k} |-> IF x = k THEN v ELSE m[x]]

\* --------------------------------------------------------- date conversion
\* An issuer response carries expires_at as a string: either an ISO date, or
\* something Date cannot parse.
IsoDate(ms) == [valid |-> TRUE, ms |-> ms]
InvalidDate == [valid |-> FALSE, ms |-> 0]

\* new Date(s).getTime(): the epoch milliseconds, or NaN.
NaN == [nan |-> TRUE, ms |-> 0]
Num(ms) == [nan |-> FALSE, ms |-> ms]

DateGetTime(s) == IF s.valid THEN Num(s.ms) ELSE NaN

\* ------------------------------------------------------------- AuthState
\* The outcome of a getAgentToken call: what it returned or threw, for which
\* agent, the token returned (0: none), and the human credential the call
\* passed to the issuer (NULL: it made no issuer call, or the call failed).
Ret(kind, a, token) == [kind |-> kind, agentId |-> a, token |-> token, user |-> NULL]

NoRet == Ret("none", "", 0)

isLoggedIn_Never == FALSE

isLoggedIn == userToken # NULL

RequireFails == Falsy(userToken)

\* requireUserToken(): throws "Not authenticated", or returns this.userToken.
requireUserToken ==
  IF RequireFails THEN [threw |-> TRUE, value |-> NULL]
                  ELSE [threw |-> FALSE, value |-> userToken]

\* cached.expiresAt - Date.now() > TOKEN_REFRESH_MARGIN_MS  (false for NaN)
IsFresh_GE(entry, t) ==
  /\ ~entry.expiresAt.nan
  /\ entry.expiresAt.ms - t >= TOKEN_REFRESH_MARGIN_MS

IsFresh_Reversed(entry, t) ==
  /\ ~entry.expiresAt.nan
  /\ entry.expiresAt.ms - t < TOKEN_REFRESH_MARGIN_MS

IsFresh(entry, t) ==
  /\ ~entry.expiresAt.nan
  /\ entry.expiresAt.ms - t > TOKEN_REFRESH_MARGIN_MS

CacheHit(a) == MapHas(agentTokens, a) /\ IsFresh(agentTokens[a], now)

Pending == [st |-> "pending", val |-> ""]
Unused == [st |-> "none", val |-> ""]
NoUrl ==
  [built |-> FALSE, web |-> "", host |-> "", port |-> 0, path |-> "",
   mcp_callback |-> <<>>]
NoResp == [attempt |-> 0, status |-> "none"]

\* createServer (server.ts 106-118): a fresh AuthState, seeded from the
\* environment when APHORIST_USER_TOKEN is a non-empty string.
Init ==
  /\ \E env \in EnvValues : userToken = IF Falsy(env) THEN NULL ELSE env
  /\ tool = [i \in Attempts |-> "idle"]
  /\ outcome = [i \in Attempts |-> Unused]
  /\ timeout = [i \in Attempts |-> "none"]
  /\ server = [i \in Attempts |-> [state |-> "none", port |-> 0]]
  /\ conns = [i \in Attempts |-> 0]
  /\ browser = [i \in Attempts |-> "none"]
  /\ loginUrl = [i \in Attempts |-> NoUrl]
  /\ lastResp = NoResp
  /\ agentTokens = EmptyMap
  /\ now = 0
  /\ inflight = {}
  /\ mintCalls = 0
  /\ mintsAtClear = 0
  /\ lastRet = NoRet

setUserToken(t) ==
  /\ userToken' = t
  /\ UNCHANGED <<authVars, loginVars>>

SetUserToken == \E t \in UserTokens : setUserToken(t)

\* getAgentToken, first segment (lines 73-80): the cache check, then
\* requireUserToken, then the issuer call up to its await.
GetAgentTokenHit(a) ==
  /\ CacheHit(a)
  /\ lastRet' = Ret("hit", a, agentTokens[a].token)
  /\ UNCHANGED <<userToken, agentTokens, now, inflight, mintCalls, mintsAtClear, loginVars>>

GetAgentTokenNotAuth(a) ==
  /\ ~CacheHit(a)
  /\ RequireFails
  /\ lastRet' = Ret("NotAuthenticated", a, 0)
  /\ UNCHANGED <<userToken, agentTokens, now, inflight, mintCalls, mintsAtClear, loginVars>>

GetAgentTokenMint_Twice(a) ==
  /\ ~CacheHit(a)
  /\ ~RequireFails
  /\ mintCalls + 1 < MaxMints
  /\ mintCalls' = mintCalls + 2
  /\ inflight' = inflight \cup
       {[agentId |-> a, user |-> userToken, serial |-> mintCalls + 1],
        [agentId |-> a, user |-> userToken, serial |-> mintCalls + 2]}
  /\ UNCHANGED <<userToken, agentTokens, now, mintsAtClear, lastRet, loginVars>>

GetAgentTokenMint(a) ==
  /\ ~CacheHit(a)
  /\ ~RequireFails
  /\ mintCalls < MaxMints
  /\ mintCalls' = mintCalls + 1
  /\ inflight' = inflight \cup
       {[agentId |-> a, user |-> userToken, serial |-> mintCalls + 1]}
  /\ UNCHANGED <<userToken, agentTokens, now, mintsAtClear, lastRet, loginVars>>

getAgentToken(a) ==
  \/ GetAgentTokenHit(a)
  \/ GetAgentTokenNotAuth(a)
  \/ GetAgentTokenMint(a)

GetAgentToken == \E a \in AgentIds : getAgentToken(a)

\* getAgentToken, second segment (lines 85-90): the issuer answered.
MintSucceed_NewestRequestWins(c, expires_at) ==
  /\ c \in inflight
  /\ inflight' = inflight \ {c}
  /\ agentTokens' =
       IF MapHas(agentTokens, c.agentId) /\ agentTokens[c.agentId].token > c.serial
         THEN agentTokens
         ELSE MapSet(agentTokens, c.agentId,
                     [token |-> c.serial, expiresAt |-> DateGetTime(expires_at)])
  /\ lastRet' = [Ret("mint", c.agentId, c.serial) EXCEPT !.user = c.user]
  /\ UNCHANGED <<userToken, now, mintCalls, mintsAtClear, loginVars>>

MintSucceed(c, expires_at) ==
  /\ c \in inflight
  /\ inflight' = inflight \ {c}
  /\ agentTokens' = MapSet(agentTokens, c.agentId,
                           [token |-> c.serial,
                            expiresAt |-> DateGetTime(expires_at)])
  /\ lastRet' = [Ret("mint", c.agentId, c.serial) EXCEPT !.user = c.user]
  /\ UNCHANGED <<userToken, now, mintCalls, mintsAtClear, loginVars>>

\* What the issuer may answer at time t.
IssuerExpiries(t) == {IsoDate(t + k * TickMs) : k \in Lifetimes} \cup {InvalidDate}

IssuerAnswers == \E c \in inflight : \E e \in IssuerExpiries(now) : MintSucceed(c, e)

\* getAgentToken, second segment when generateAgentToken rejects: the error
\* propagates out of the await and line 85 is never reached.
MintFail_DropsEntry(c) ==
  /\ c \in inflight
  /\ inflight' = inflight \ {c}
  /\ agentTokens' = [x \in (DOMAIN agentTokens) \ {c.agentId} |-> agentTokens[x]]
  /\ lastRet' = Ret("TokenIssuanceFailed", c.agentId, 0)
  /\ UNCHANGED <<userToken, now, mintCalls, mintsAtClear, loginVars>>

MintFail(c) ==
  /\ c \in inflight
  /\ inflight' = inflight \ {c}
  /\ lastRet' = Ret("TokenIssuanceFailed", c.agentId, 0)
  /\ UNCHANGED <<userToken, agentTokens, now, mintCalls, mintsAtClear, loginVars>>

IssuerFails == \E c \in inflight : MintFail(c)

clearAgentTokens ==
  /\ agentTokens' = EmptyMap
  /\ mintsAtClear' = mintCalls
  /\ UNCHANGED <<userToken, now, inflight, mintCalls, lastRet, loginVars>>

Tick ==
  /\ now < MaxTicks * TickMs
  /\ now' = now + TickMs
  /\ UNCHANGED <<userToken, agentTokens, inflight, mintCalls, mintsAtClear, lastRet,
                 loginVars>>

\* AuthState as its callers may drive it: every public method, with any
\* argument of its type, in any interleaving with the issuer's answers.
NextAuth ==
  \/ SetUserToken
  \/ GetAgentToken
  \/ IssuerAnswers
  \/ IssuerFails
  \/ clearAgentTokens
  \/ Tick

SpecAuth == Init /\ [][NextAuth]_vars

\* ---------------------------------------------------------- browserLogin
\* APHORIST_WEB_URL, or its default (server.ts 108).
webUrl == "https://aphori.st"

\* if (token): a non-empty string.
IsValidToken_NotNull(token) == token # NULL

IsValidToken(token) == ~Falsy(token)

\* clearTimeout(timeout): disarms a timer that has not fired; no effect otherwise.
clearTimeout_Noop(t) == t

clearTimeout(t) == IF t = "armed" THEN "cleared" ELSE t

\* server.close(): stops accepting connections; no effect on a closed server.
serverClose_Noop(srv) == srv

serverClose(srv) == [srv EXCEPT !.state = "closed"]

\* resolve(v) / reject(e) on the promise: only the first settlement counts.
Settle(o, st, val) == IF o.st = "pending" THEN [st |-> st, val |-> val] ELSE o

Settled(i) == outcome[i].st \in {"resolved", "rejected"}

\* The record of how a request to the listener of attempt i was answered.
Resp(i, status) == [attempt |-> i, status |-> status]

\* The address server.listen(0, "127.0.0.1", ...) binds (browser-login.ts 73).
ListenHost == "127.0.0.1"

\* `http://localhost:${addr.port}/callback` (81), as the sequence of its
\* parts; the port is interpolated as its decimal string.
CallbackUrl(port) ==
  <<"http", ":", "/", "/", "localhost", ":", ToString(port), "/", "callback">>

\* encodeURIComponent: escapes the reserved characters, here ":" and "/".
EncodeURIComponent(url) ==
  [k \in DOMAIN url |->
     IF url[k] = ":" THEN "%3A" ELSE IF url[k] = "/" THEN "%2F" ELSE url[k]]

\* `${webUrl}/auth/verify?mcp_callback=${encodeURIComponent(callbackUrl)}`
\* (82): the login URL, with the host, port and path of the callback URL it
\* carries and the encoded value of its mcp_callback parameter.
BuildLoginUrl_NoPort(web, port) ==
  [built |-> TRUE, web |-> web, host |-> "localhost", port |-> 0,
   path |-> "/callback", mcp_callback |-> EncodeURIComponent(CallbackUrl(0))]

BuildLoginUrl(web, port) ==
  [built |-> TRUE, web |-> web, host |-> CallbackUrl(port)[5], port |-> port,
   path |-> "/callback", mcp_callback |-> EncodeURIComponent(CallbackUrl(port))]

\* cleanup() followed by resolve/reject, and the continuation of the login
\* tool handler that awaits the promise (server.ts 137-150): on the first
\* settlement it stores the token, or reports the failure.  k is the number of
\* accepted connections that stay open after server.close().
CleanupAndSettle_StoresAlways(i, st, val, k) ==
  /\ timeout' = [timeout EXCEPT ![i] = clearTimeout(@)]
  /\ server' = [server EXCEPT ![i] = serverClose(@)]
  /\ conns' = [conns EXCEPT ![i] = k]
  /\ outcome' = [outcome EXCEPT ![i] = Settle(@, st, val)]
  /\ IF outcome[i].st = "pending"
       THEN /\ tool' = [tool EXCEPT ![i] = IF st = "resolved" THEN "success" ELSE "failed"]
            /\ userToken' = val
       ELSE UNCHANGED <<tool, userToken>>

CleanupAndSettle(i, st, val, k) ==
  /\ timeout' = [timeout EXCEPT ![i] = clearTimeout(@)]
  /\ server' = [server EXCEPT ![i] = serverClose(@)]
  /\ conns' = [conns EXCEPT ![i] = k]
  /\ outcome' = [outcome EXCEPT ![i] = Settle(@, st, val)]
  /\ IF outcome[i].st = "pending"
       THEN /\ tool' = [tool EXCEPT ![i] = IF st = "resolved" THEN "success" ELSE "failed"]
            /\ userToken' = IF st = "resolved" THEN val ELSE userToken
       ELSE UNCHANGED <<tool, userToken>>

\* The login tool handler up to its await (server.ts 131-137), with the
\* executor of browserLogin's promise (browser-login.ts 20-21, 62-65, 73, 96).
LoginAlready(i) ==
  /\ tool[i] = "idle"
  /\ \A j \in Attempts : j < i => tool[j] # "idle"
  /\ isLoggedIn
  /\ tool' = [tool EXCEPT ![i] = "already"]
  /\ UNCHANGED <<userToken, authVars, outcome, timeout, server, conns, browser,
                 loginUrl, lastResp>>

LoginStart(i) ==
  /\ tool[i] = "idle"
  /\ \A j \in Attempts : j < i => tool[j] # "idle"
  /\ ~isLoggedIn
  /\ tool' = [tool EXCEPT ![i] = "awaiting"]
  /\ outcome' = [outcome EXCEPT ![i] = Pending]
  /\ timeout' = [timeout EXCEPT ![i] = "armed"]
  /\ server' = [server EXCEPT ![i] = [state |-> "binding", port |-> 0]]
  /\ UNCHANGED <<userToken, authVars, conns, browser, loginUrl, lastResp>>

LoginTool == \E i \in Attempts : LoginAlready(i) \/ LoginStart(i)

PortsInUse == {server[j].port : j \in {x \in Attempts : server[x].state = "listening"}}

\* The listen callback (browser-login.ts 73-94).
ListenOk_ClearsTimer(i, p) ==
  /\ server[i].state = "binding"
  /\ p \in Ports \ PortsInUse
  /\ server' = [server EXCEPT ![i] = [state |-> "listening", port |-> p]]
  /\ loginUrl' = [loginUrl EXCEPT ![i] = BuildLoginUrl(webUrl, p)]
  /\ browser' = [browser EXCEPT ![i] = "opening"]
  /\ timeout' = [timeout EXCEPT ![i] = clearTimeout(@)]
  /\ UNCHANGED <<userToken, authVars, tool, outcome, conns, lastResp>>

ListenOk(i, p) ==
  /\ server[i].state = "binding"
  /\ p \in Ports \ PortsInUse
  /\ server' = [server EXCEPT ![i] = [state |-> "listening", port |-> p]]
  /\ loginUrl' = [loginUrl EXCEPT ![i] = BuildLoginUrl(webUrl, p)]
  /\ browser' = [browser EXCEPT ![i] = "opening"]
  /\ UNCHANGED <<userToken, authVars, tool, outcome, timeout, conns, lastResp>>

ListenNoAddress(i, p) ==
  /\ server[i].state = "binding"
  /\ p \in Ports \ PortsInUse
  /\ CleanupAndSettle(i, "rejected", "Failed to start callback server", 0)
  /\ UNCHANGED <<authVars, browser, loginUrl, lastResp>>

ListenCallback ==
  \E i \in Attempts : \E p \in Ports : ListenOk(i, p) \/ ListenNoAddress(i, p)

\* open(loginUrl) settles; a rejection is swallowed by the catch (85-87).
BrowserResult_FailureRejects(i, ok) ==
  /\ browser[i] = "opening"
  /\ browser' = [browser EXCEPT ![i] = IF ok THEN "opened" ELSE "failed"]
  /\ IF ok
       THEN UNCHANGED <<userToken, tool, outcome, timeout, server, conns>>
       ELSE CleanupAndSettle(i, "rejected", "browser launch failed", conns[i])
  /\ UNCHANGED <<authVars, loginUrl, lastResp>>

BrowserResult(i, ok) ==
  /\ browser[i] = "opening"
  /\ browser' = [browser EXCEPT ![i] = IF ok THEN "opened" ELSE "failed"]
  /\ UNCHANGED <<userToken, authVars, tool, outcome, timeout, server, conns,
                 loginUrl, lastResp>>

BrowserSettles == \E i \in Attempts : \E ok \in BOOLEAN : BrowserResult(i, ok)

\* server.on("error") (96-99): the bind failed, or the socket reported an error.
ErrorEvent(i, k) ==
  /\ server[i].state \in {"binding", "listening"}
  /\ k \in 0..conns[i]
  /\ CleanupAndSettle(i, "rejected", "listener error", k)
  /\ UNCHANGED <<authVars, browser, loginUrl, lastResp>>

ServerError == \E i \in Attempts : \E k \in 0..MaxConns : ErrorEvent(i, k)

\* The timer callback (62-65).  Timers run after the next-tick queue in which
\* the bind and the listen callback run, so it cannot precede them.
Timeout(i, k) ==
  /\ timeout[i] = "armed"
  /\ server[i].state # "binding"
  /\ k \in 0..conns[i]
  /\ timeout' = [timeout EXCEPT ![i] = "fired"]
  /\ server' = [server EXCEPT ![i] = serverClose(@)]
  /\ conns' = [conns EXCEPT ![i] = k]
  /\ outcome' = [outcome EXCEPT ![i] =
                   Settle(@, "rejected", "Browser login timed out. Please try again.")]
  /\ IF outcome[i].st = "pending"
       THEN tool' = [tool EXCEPT ![i] = "failed"]
       ELSE UNCHANGED tool
  /\ UNCHANGED <<userToken, authVars, browser, loginUrl, lastResp>>

TimerFires == \E i \in Attempts : \E k \in 0..MaxConns : Timeout(i, k)

\* A client connects to the listener's port.
Connect(i) ==
  /\ server[i].state = "listening"
  /\ conns[i] < MaxConns
  /\ conns' = [conns EXCEPT ![i] = @ + 1]
  /\ UNCHANGED <<userToken, authVars, tool, outcome, timeout, server, browser,
                 loginUrl, lastResp>>

\* A client connects after server.close(): refused by the operating system.
ConnRefused(i) ==
  /\ server[i].state = "closed"
  /\ lastResp' = Resp(i, "refused")
  /\ UNCHANGED <<userToken, authVars, tool, outcome, timeout, server, conns,
                 browser, loginUrl>>

Disconnect(i) ==
  /\ conns[i] > 0
  /\ conns' = [conns EXCEPT ![i] = @ - 1]
  /\ UNCHANGED <<userToken, authVars, tool, outcome, timeout, server, browser,
                 loginUrl, lastResp>>

Network == \E i \in Attempts : Connect(i) \/ ConnRefused(i) \/ Disconnect(i)

\* The request handler (21-60), for a request arriving on an open connection.
HandleCallback(i, r, k) ==
  /\ conns[i] > 0
  /\ r.path = "/callback"
  /\ IsValidToken(r.token)
  /\ k \in 0..conns[i]
  /\ lastResp' = Resp(i, "200")
  /\ CleanupAndSettle(i, "resolved", r.token, k)
  /\ UNCHANGED <<authVars, browser, loginUrl>>

HandleNoToken(i, r) ==
  /\ conns[i] > 0
  /\ r.path = "/callback"
  /\ ~IsValidToken(r.token)
  /\ lastResp' = Resp(i, "400")
  /\ UNCHANGED <<userToken, authVars, tool, outcome, timeout, server, conns,
                 browser, loginUrl>>

HandleOtherPath(i, r) ==
  /\ conns[i] > 0
  /\ r.path # "/callback"
  /\ lastResp' = Resp(i, "404")
  /\ UNCHANGED <<userToken, authVars, tool, outcome, timeout, server, conns,
                 browser, loginUrl>>

HttpRequest(i, r) ==
  \/ \E k \in 0..MaxConns : HandleCallback(i, r, k)
  \/ HandleNoToken(i, r)
  \/ HandleOtherPath(i, r)

Request == \E i \in Attempts : \E r \in Requests : HttpRequest(i, r)

\* The login tool and its callback listeners, as the MCP client, the browser
\* and the runtime may drive them.
NextLogin ==
  \/ LoginTool
  \/ ListenCallback
  \/ BrowserSettles
  \/ ServerError
  \/ TimerFires
  \/ Network
  \/ Request

SpecLogin == Init /\ [][NextLogin]_vars

\* The event loop runs what is due: the outcome of listen() (the listen
\* callback, unless the error event comes instead) is delivered, and a timer
\* that stays armed fires after timeoutMs.  Nothing is assumed about the
\* browser, the clients of the listener or the MCP client.
ListenSettles(i) == \E p \in Ports : ListenOk(i, p) \/ ListenNoAddress(i, p)

TimeoutElapses(i) == \E k \in 0..MaxConns : Timeout(i, k)

SpecLoginFair ==
  /\ SpecLogin
  /\ \A i \in Attempts : WF_vars(ListenSettles(i)) /\ WF_vars(TimeoutElapses(i))

\* ------------------------------------------------------- both components
\* AuthState and the login flow share only userToken: no step of the login
\* flow reads or writes the cache or the issuer calls, and no AuthState method
\* reads or writes an attempt.  A property that is the conjunction of a
\* property of each component can therefore be checked on the behaviours in
\* which one component runs while the other is still as constructed.
AuthQuiet ==
  /\ agentTokens = EmptyMap
  /\ now = 0
  /\ inflight = {}
  /\ mintCalls = 0
  /\ mintsAtClear = 0
  /\ lastRet = NoRet

LoginQuiet == \A i \in Attempts : tool[i] = "idle"

NextEither ==
  \/ LoginQuiet /\ SetUserToken
  \/ LoginQuiet /\ GetAgentToken
  \/ LoginQuiet /\ IssuerAnswers
  \/ LoginQuiet /\ IssuerFails
  \/ LoginQuiet /\ clearAgentTokens
  \/ LoginQuiet /\ Tick
  \/ AuthQuiet /\ LoginTool
  \/ AuthQuiet /\ ListenCallback
  \/ AuthQuiet /\ BrowserSettles
  \/ AuthQuiet /\ ServerError
  \/ AuthQuiet /\ TimerFires
  \/ AuthQuiet /\ Network
  \/ AuthQuiet /\ Request

SpecEither == Init /\ [][NextEither]_vars

\* ======================================================== AuthState claims
\* The cache holds, for agent a, an entry with more than the 5-minute margin
\* of lifetime left (stated on the raw state, apart from IsFresh).
FreshFor(a) ==
  /\ a \in DOMAIN agentTokens
  /\ ~agentTokens[a].expiresAt.nan
  /\ agentTokens[a].expiresAt.ms - now > 5 * 60 * 1000

\* A step in which the issuer's answer to an in-flight call of agent a arrives.
IssuerSettles(a) ==
  \E c \in inflight :
    /\ c.agentId = a
    /\ \/ MintFail(c)
       \/ \E e \in IssuerExpiries(now) : MintSucceed(c, e)

\* A step in which a getAgentToken call returns a token.
Returns == lastRet' # lastRet /\ lastRet'.kind \in {"hit", "mint"}

\* C1: every token getAgentToken returns, cached or freshly minted, belongs to
\* a credential whose expiresAt exceeds the time of return by more than the
\* 5-minute margin, whatever expiry the issuer answered.  (On return the cache
\* entry of the agent is the credential of the returned token.)
C1_ReturnedTokenOutsideMargin ==
  [][Returns =>
       /\ lastRet'.agentId \in DOMAIN agentTokens'
       /\ agentTokens'[lastRet'.agentId].token = lastRet'.token
       /\ ~agentTokens'[lastRet'.agentId].expiresAt.nan
       /\ agentTokens'[lastRet'.agentId].expiresAt.ms - now' > 5 * 60 * 1000]_vars

\* C2: a getAgentToken call made while no human credential is available
\* (requireUserToken would throw) fails with NotAuthenticated: it returns no
\* token, cached or minted, and makes no issuer call.
C2_NoCredentialNoToken ==
  [][\A a \in AgentIds :
       ((userToken = NULL \/ userToken = "") /\ getAgentToken(a)) =>
         /\ lastRet'.kind = "NotAuthenticated"
         /\ mintCalls' = mintCalls
         /\ inflight' = inflight]_vars

\* C3: a getAgentToken(a) call made while the cache holds an entry for a with
\* more than 5 minutes left returns exactly that cached token, makes no issuer
\* call and changes nothing in the cache.
C3_FreshEntryServedFromCache ==
  [][\A a \in AgentIds :
       (FreshFor(a) /\ getAgentToken(a)) =>
         /\ lastRet'.kind = "hit"
         /\ lastRet'.agentId = a
         /\ lastRet'.token = agentTokens[a].token
         /\ mintCalls' = mintCalls
         /\ inflight' = inflight
         /\ agentTokens' = agentTokens]_vars

\* C3 witness: a second call was served the token of the only mint so far.
C3_Witness ==
  /\ lastRet.kind = "hit"
  /\ lastRet.token = 1
  /\ mintCalls = 1

\* C4: a getAgentToken(a) call made with a human credential while the cache
\* has no entry for a, or one with at most 5 minutes left (exactly 5 included),
\* issues exactly one issuer call, with that credential and a; when the issuer
\* answers, the whole entry of a becomes the minted {token, expiresAt} and the
\* minted token is returned.
C4_StaleEntryReminted ==
  [][\A a \in AgentIds :
       /\ (~FreshFor(a) /\ ~Falsy(userToken) /\ getAgentToken(a)) =>
            /\ mintCalls' = mintCalls + 1
                      /\ \E c \in inflight' :
                 /\ inflight' = inflight \cup {c}
                 /\ c \notin inflight
                 /\ c.agentId = a
                 /\ c.user = userToken
                 /\ c.serial = mintCalls'
       /\ \A c \in inflight : \A e \in IssuerExpiries(now) :
            (c.agentId = a /\ MintSucceed(c, e)) =>
              /\ a \in DOMAIN agentTokens'
              /\ agentTokens'[a] =
                   [token |-> c.serial,
                    expiresAt |-> IF e.valid THEN Num(e.ms) ELSE NaN]
              /\ lastRet'.kind = "mint"
              /\ lastRet'.token = c.serial
              /\ mintCalls' = mintCalls]_vars

\* C4 witness: a remint is in flight for an agent whose cached entry has
\* exactly the margin left, and an earlier remint has replaced an entry.
C4_Witness ==
  \E c \in inflight :
    /\ c.agentId \in DOMAIN agentTokens
    /\ ~agentTokens[c.agentId].expiresAt.nan
    /\ agentTokens[c.agentId].expiresAt.ms - now = 5 * 60 * 1000
    /\ c.serial = 2
    /\ lastRet.kind = "mint"
    /\ lastRet.token = 1

\* C5: when the issuer call of a getAgentToken call fails, the call ends with
\* the error and the cache is exactly as before: the stale entry of that agent
\* is still there, unmodified, and no other entry changes.
C5_FailedMintLeavesCache ==
  [][(inflight' # inflight /\ inflight' \subseteq inflight
        /\ lastRet'.kind # "mint") =>
       /\ lastRet'.kind = "TokenIssuanceFailed"
       /\ \E c \in inflight : inflight' = inflight \ {c} /\ lastRet'.agentId = c.agentId
       /\ agentTokens' = agentTokens]_vars

\* C5 witness: a remint failed while the stale entry of that agent is cached.
C5_Witness ==
  /\ lastRet.kind = "TokenIssuanceFailed"
  /\ lastRet.agentId \in DOMAIN agentTokens
  /\ ~IsFresh(agentTokens[lastRet.agentId], now)

\* C6: a getAgentToken(a) call, in each of its steps (cache hit, start of a
\* remint, successful or failed answer), leaves the entry of every other agent
\* b exactly as it was.
C6_OtherAgentsUntouched ==
  [][\A a \in AgentIds : \A b \in AgentIds \ {a} :
       (getAgentToken(a) \/ IssuerSettles(a)) =>
         /\ (b \in DOMAIN agentTokens) = (b \in DOMAIN agentTokens')
         /\ b \in DOMAIN agentTokens => agentTokens'[b] = agentTokens[b]]_vars

\* C6 witness: one agent was reminted while the other agent's entry is cached
\* and fresh.
C6_Witness ==
  /\ lastRet.kind = "mint"
  /\ \E b \in AgentIds \ {lastRet.agentId} : FreshFor(b)
  /\ lastRet.agentId \in DOMAIN agentTokens

\* C7: a getAgentToken call made after clearAgentTokens never returns a token
\* that was cached or requested from the issuer before that clear, also when a
\* mint was in flight while clearAgentTokens ran: it mints afresh.  (A call
\* served from the cache is one made after every clear so far; the tokens
\* requested before the latest clear are those numbered up to mintsAtClear.)
C7_NoTokenFromBeforeClear ==
  [][(lastRet' # lastRet /\ lastRet'.kind = "hit") =>
       lastRet'.token > mintsAtClear]_vars

\* ===================================================== browserLogin claims
ValidCallback(r) == r.path = "/callback" /\ r.token \notin {NULL, ""}

TimedOut(i) ==
  outcome[i] = [st |-> "rejected", val |-> "Browser login timed out. Please try again."]

\* C8: the first /callback with a non-empty token t on a pending attempt
\* settles it with t and tears the listener down; a request the listener
\* answers after that is never served the success page again: it gets a
\* not-found response, and the resolved value stays.
C8_AfterSuccessOnlyNotFound ==
  [][\A i \in Attempts : \A r \in Requests :
       /\ (outcome[i].st = "pending" /\ ValidCallback(r) /\ HttpRequest(i, r)) =>
            /\ outcome'[i] = [st |-> "resolved", val |-> r.token]
            /\ lastResp' = [attempt |-> i, status |-> "200"]
            /\ server'[i].state = "closed"
       /\ (outcome[i].st = "resolved" /\ HttpRequest(i, r) /\ lastResp' # lastResp) =>
            /\ outcome'[i] = outcome[i]
            /\ lastResp' = [attempt |-> i, status |-> "404"]]_vars

\* C9: while an attempt is pending, a request that is not a valid callback is
\* answered 400 (/callback without a token or with an empty one) or 404 (any
\* other path) and changes nothing: the outcome stays pending, the listener
\* stays open and the timer armed, as they were before the request.
C9_InvalidRequestChangesNothing ==
  [][\A i \in Attempts : \A r \in Requests :
       (outcome[i].st = "pending" /\ ~ValidCallback(r) /\ HttpRequest(i, r)) =>
         /\ lastResp'.attempt = i
         /\ lastResp'.status = IF r.path = "/callback" THEN "400" ELSE "404"
         /\ outcome' = outcome /\ outcome'[i].st = "pending"
         /\ server' = server /\ server'[i].state = "listening"
         /\ timeout' = timeout /\ timeout'[i] = "armed"
         /\ conns' = conns
         /\ tool' = tool
         /\ userToken' = userToken]_vars

\* C9 witness: a pending attempt has answered 400 to a callback without a
\* token and is still listening, with its timer armed.
C9_Witness ==
  \E i \in Attempts :
    /\ lastResp = [attempt |-> i, status |-> "400"]
    /\ outcome[i].st = "pending"
    /\ tool[i] = "awaiting"
    /\ server[i].state = "listening"
    /\ timeout[i] = "armed"

\* C10: the first of {valid callback, timeout, listener error} decides the
\* attempt and nothing changes it afterwards: a timeout on a pending attempt
\* rejects it with the timeout error, which a later callback cannot turn into
\* a success; a valid callback on a pending attempt resolves it with that
\* token and clears the timer, so that no timeout follows.
C10_FirstSettlementWins ==
  /\ [][\A i \in Attempts :
          /\ Settled(i) => (outcome'[i] = outcome[i] /\ tool'[i] = tool[i])
          /\ \A r \in Requests :
               (outcome[i].st = "pending" /\ ValidCallback(r) /\ HttpRequest(i, r)) =>
                 outcome'[i] = [st |-> "resolved", val |-> r.token]
          /\ (outcome[i].st = "pending" /\ timeout'[i] = "fired") => TimedOut(i)']_vars
  /\ [](\A i \in Attempts :
          /\ outcome[i].st = "resolved" =>
               (timeout[i] = "cleared" /\ tool[i] = "success")
          /\ timeout[i] = "fired" <=> TimedOut(i)
          /\ TimedOut(i) => tool[i] = "failed")

\* C10 witness: an attempt timed out, and a valid callback that arrived later
\* on a connection still open was answered but left the rejection in place.
C10_Witness ==
  \E i \in Attempts :
    /\ TimedOut(i)
    /\ tool[i] = "failed"
    /\ lastResp = [attempt |-> i, status |-> "200"]

\* C11: in every reachable state, an attempt that has settled (by a valid
\* callback, the timeout, a failure to start or a socket error) has its
\* listener closed and its timer no longer armed (cleared, or fired in the
\* case of the timeout); an open listener or an armed timer belongs to a
\* pending attempt.
C11_SettledAttemptReleasesResources ==
  \A i \in Attempts :
    /\ Settled(i) =>
         /\ server[i].state = "closed"
         /\ timeout[i] \in {"cleared", "fired"}
         /\ timeout[i] = "fired" <=> TimedOut(i)
    /\ (server[i].state \in {"binding", "listening"} \/ timeout[i] = "armed") =>
         outcome[i].st = "pending"

\* C11 witness: a socket error settled an attempt whose listener was
\* accepting requests, while the other attempt has settled by a valid callback.
C11_Witness ==
  \E i \in Attempts : \E j \in Attempts \ {i} :
    /\ outcome[i] = [st |-> "rejected", val |-> "listener error"]
    /\ loginUrl[i].built
    /\ server[i].state = "closed"
    /\ timeout[i] = "cleared"
    /\ outcome[j].st = "resolved"
    /\ server[j].state = "closed"

\* C12: a login call made while a human credential is stored (seeded from the
\* environment at start, or stored by an earlier login) answers "Already
\* authenticated." at once: it creates no listener, arms no timer, launches no
\* browser, builds no login URL, makes no issuer call and leaves the stored
\* credential, like everything else, unchanged.
C12_LoginShortCircuits ==
  [][\A i \in Attempts :
       (userToken # NULL /\ tool[i] = "idle" /\ tool'[i] # "idle") =>
         /\ tool'[i] = "already"
         /\ userToken' = userToken
         /\ server' = server /\ server'[i].state = "none"
         /\ timeout' = timeout /\ timeout'[i] = "none"
         /\ browser' = browser /\ browser'[i] = "none"
         /\ loginUrl' = loginUrl /\ ~loginUrl'[i].built
         /\ outcome' = outcome /\ outcome'[i] = Unused
         /\ conns' = conns
         /\ mintCalls' = mintCalls /\ inflight' = inflight
         /\ agentTokens' = agentTokens]_vars

\* C12 witness: the second login call was answered "Already authenticated."
\* with the credential the first login stored, and owns no listener or timer.
C12_Witness ==
  /\ tool[1] = "success"
  /\ userToken = outcome[1].val
  /\ tool[2] = "already"
  /\ server[2].state = "none"
  /\ timeout[2] = "none"
  /\ browser[2] = "none"

\* The login call of attempt i returns in this step, with the given result.
LoginReturns(i, result) == tool[i] = "awaiting" /\ tool'[i] = result

C14_LoggedInIffRequireSucceeds ==
  /\ isLoggedIn <=> userToken \in UserTokens
  /\ requireUserToken.threw <=> ~isLoggedIn
  /\ ~requireUserToken.threw => requireUserToken.value = userToken

\* C15: requireUserToken() throws while nothing has been stored; after a
\* setUserToken(t) call it returns exactly t, whatever was stored before;
\* and no step other than a setUserToken call (getAgentToken, the issuer's
\* answers, clearAgentTokens) changes the stored credential.
C15_RequireReturnsLastSet ==
  [][/\ userToken = NULL => requireUserToken.threw
     /\ \A t \in UserTokens :
          setUserToken(t) =>
            /\ ~requireUserToken'.threw
            /\ requireUserToken'.value = t
     /\ userToken' # userToken => \E t \in UserTokens : setUserToken(t)]_vars

\* C16: a getAgentToken(a) call made while another call for a is suspended at
\* the issuer, and the cache has no fresh entry for a, issues its own issuer
\* call, distinct from every call in flight; when the issuer answers a call,
\* that call returns the token of its own mint and the one entry of a becomes
\* that mint's {token, expiresAt}, whatever entry an overlapping call stored
\* before (requested earlier or later, expiring earlier or later): the answer
\* processed last is the one that stays.
C16_OverlappingMintsLastWriteWins ==
  /\ [][\A a \in AgentIds :
          /\ ((\E d \in inflight : d.agentId = a) /\ ~FreshFor(a)
                 /\ ~Falsy(userToken) /\ getAgentToken(a)) =>
               /\ mintCalls' = mintCalls + 1
               /\ \E c \in inflight' \ inflight :
                    /\ inflight' = inflight \cup {c}
                    /\ c.agentId = a
                    /\ \A d \in inflight : d.serial # c.serial
          /\ \A c \in inflight : \A e \in IssuerExpiries(now) :
               (c.agentId = a /\ MintSucceed(c, e)) =>
                 /\ lastRet'.kind = "mint" /\ lastRet'.agentId = a
                 /\ lastRet'.token = c.serial
                 /\ agentTokens'[a].token = c.serial
                 /\ agentTokens'[a].expiresAt = (IF e.valid THEN Num(e.ms) ELSE NaN)
                 /\ inflight' = inflight \ {c}]_vars
  /\ [](\A c \in inflight : \A d \in inflight : c.serial = d.serial => c = d)

\* C16 witness: two calls for the same agent were in flight together; the one
\* requested second was answered first and returned its own token, which the
\* cache holds while the call requested first is still waiting.
C16_Witness ==
  \E c \in inflight :
    /\ c.serial = 1
    /\ lastRet.kind = "mint" /\ lastRet.agentId = c.agentId /\ lastRet.token = 2
    /\ c.agentId \in DOMAIN agentTokens
    /\ agentTokens[c.agentId].token = 2

\* C17: every attempt that is pending eventually settles (by a valid
\* callback, the timeout, a failure to start or a socket error), assuming only
\* that the outcome of listen() is delivered and that an armed timer fires:
\* whatever requests arrive and whatever the browser launch does.  A request
\* that is not a valid callback leaves a pending attempt pending and
\* listening with its timer armed; every step that changes a pending outcome
\* settles it and closes the listener, and a settled outcome stays.
C17_AttemptEventuallySettles ==
  /\ \A i \in Attempts : (outcome[i].st = "pending") ~> Settled(i)
  /\ [][\A i \in Attempts :
          /\ \A r \in Requests :
               (outcome[i].st = "pending" /\ ~ValidCallback(r) /\ HttpRequest(i, r)) =>
                 /\ outcome'[i].st = "pending"
                 /\ server'[i].state = "listening"
                 /\ timeout'[i] = "armed"
          /\ (outcome[i].st = "pending" /\ outcome'[i] # outcome[i]) =>
               /\ outcome'[i].st \in {"resolved", "rejected"}
               /\ server'[i].state = "closed"
          /\ outcome[i].st \in {"resolved", "rejected"} => outcome'[i] = outcome[i]]_vars

\* C17 witness: an attempt whose browser launch failed answered a callback
\* without a token, went on listening, and was ended by the timeout.
C17_Witness ==
  \E i \in Attempts :
    /\ browser[i] = "failed"
    /\ lastResp = [attempt |-> i, status |-> "400"]
    /\ TimedOut(i)
    /\ server[i].state = "closed"

\* C18: the browser launch of an attempt begins only in the listen callback,
\* when the listener is bound and accepting requests, with the login URL
\* carrying the callback URL of the bound port; so in every state an attempt
\* whose launch has begun has a listener that was bound to a real port, the
\* port of its callback URL, and an attempt whose listener failed to start
\* has launched no browser and built no URL.
C18_LaunchOnlyAfterListening ==
  /\ [][\A i \in Attempts :
          (browser[i] = "none" /\ browser'[i] # "none") =>
            /\ server[i].state = "binding"
            /\ server'[i].state = "listening"
            /\ server'[i].port \in Ports
            /\ ~loginUrl[i].built /\ loginUrl'[i].built
            /\ loginUrl'[i].port = server'[i].port
            /\ loginUrl'[i].path = "/callback"]_vars
  /\ [](\A i \in Attempts :
          /\ browser[i] # "none" =>
               /\ server[i].state \in {"listening", "closed"}
               /\ server[i].port \in Ports
               /\ loginUrl[i].built
               /\ loginUrl[i].port = server[i].port
          /\ (server[i].state = "closed" /\ server[i].port \notin Ports) =>
               (browser[i] = "none" /\ ~loginUrl[i].built))

\* C18 witness: one attempt's browser opened the login URL of its listening
\* port, while the other attempt failed to start and launched nothing.
C18_Witness ==
  \E i \in Attempts : \E j \in Attempts \ {i} :
    /\ browser[i] = "opened"
    /\ server[i].state = "listening"
    /\ loginUrl[i].port = server[i].port
    /\ outcome[j] = [st |-> "rejected", val |-> "Failed to start callback server"]
    /\ browser[j] = "none"

\* C19: the failure of the browser launch changes nothing but the launch
\* itself: the outcome stays pending, the listener open, the timer armed and
\* the login URL written to stderr stays the one built; and a valid callback
\* that arrives afterwards resolves the attempt with its token and the login
\* call succeeds.
C19_LaunchFailureIsNotFatal ==
  /\ [][\A i \in Attempts :
          /\ (browser[i] = "opening" /\ browser'[i] = "failed") =>
               /\ outcome' = outcome /\ tool' = tool /\ userToken' = userToken
               /\ server' = server /\ timeout' = timeout /\ conns' = conns
               /\ loginUrl' = loginUrl /\ loginUrl'[i].built
          /\ \A r \in Requests :
               (browser[i] = "failed" /\ outcome[i].st = "pending"
                  /\ ValidCallback(r) /\ HttpRequest(i, r)) =>
                 /\ outcome'[i] = [st |-> "resolved", val |-> r.token]
                 /\ tool'[i] = "success"
                 /\ userToken' = r.token]_vars
  /\ [](\A i \in Attempts :
          (browser[i] = "failed" /\ outcome[i].st = "pending") =>
            /\ server[i].state = "listening"
            /\ timeout[i] = "armed"
            /\ loginUrl[i].built
            /\ loginUrl[i].port = server[i].port)

\* C19 witness: the login call succeeded through a valid callback although
\* the browser launch of that attempt had failed.
C19_Witness ==
  \E i \in Attempts :
    /\ browser[i] = "failed"
    /\ tool[i] = "success"
    /\ outcome[i].st = "resolved"
    /\ userToken = outcome[i].val
    /\ lastResp = [attempt |-> i, status |-> "200"]

\* C20: nothing is retried without a new call.  One getAgentToken call issues
\* at most one issuer call, issuer calls are issued by getAgentToken calls
\* only, and a failed answer ends its call without another issuer call.  One
\* login call creates at most one listener: a listener starts binding only
\* when its login call starts, starts listening only out of that bind, and
\* once closed stays closed; a bind that fails rejects the attempt at once
\* with the listener's start error and fails the login call; and a failed
\* login call stays failed, starting nothing for itself or for another call.
C20_NothingRetried ==
  [][/\ \A a \in AgentIds :
          getAgentToken(a) =>
            /\ mintCalls' \in {mintCalls, mintCalls + 1}
            /\ inflight \subseteq inflight'
            /\ Cardinality(inflight' \ inflight) = mintCalls' - mintCalls
     /\ (mintCalls' # mintCalls \/ ~(inflight' \subseteq inflight)) =>
          \E a \in AgentIds : getAgentToken(a)
     /\ \A c \in inflight :
          MintFail(c) =>
            /\ lastRet'.kind = "TokenIssuanceFailed" /\ lastRet'.agentId = c.agentId
            /\ lastRet'.token = 0
            /\ mintCalls' = mintCalls
            /\ inflight' = inflight \ {c}
     /\ \A i \in Attempts :
          /\ (server[i].state # "binding" /\ server'[i].state = "binding") =>
               /\ server[i].state = "none"
               /\ tool[i] = "idle" /\ tool'[i] = "awaiting"
          /\ (server[i].state # "listening" /\ server'[i].state = "listening") =>
               server[i].state = "binding"
          /\ server[i].state = "closed" => server'[i].state = "closed"
          /\ (server[i].state = "binding" /\ server'[i].state # "binding"
                /\ server'[i].state # "listening") =>
               /\ server'[i].state = "closed"
               /\ outcome'[i].st = "rejected"
               /\ outcome'[i].val \in {"Failed to start callback server", "listener error"}
               /\ tool'[i] = "failed"
          /\ tool[i] = "failed" =>
               (tool'[i] = "failed" /\ server'[i].state = "closed")
          /\ LoginReturns(i, "failed") =>
               /\ server'[i].state = "closed"
               /\ \A j \in Attempts \ {i} :
                    server'[j].state = server[j].state /\ tool'[j] = tool[j]]_vars

\* C20 witness: the listener of the first login call could not be bound, the
\* call failed without a second bind, and only the second login call made a
\* new attempt, which is listening.
C20_Witness ==
  /\ tool[1] = "failed"
  /\ server[1] = [state |-> "closed", port |-> 0]
  /\ outcome[1].st = "rejected"
  /\ tool[2] = "awaiting"
  /\ server[2].state = "listening"

\* C21: the login URL of every attempt is <webUrl>/auth/verify with an
\* mcp_callback parameter that is the URL-encoded form of
\* http://127.0.0.1:<port>/callback: the loopback address the listener was
\* bound to, and the port the operating system assigned to it.
C21_CallbackUrlNamesBoundAddress ==
  \A i \in Attempts :
    loginUrl[i].built =>
      /\ loginUrl[i].web = webUrl
      /\ server[i].port \in Ports
      /\ loginUrl[i].mcp_callback =
           EncodeURIComponent(<<"http", ":", "/", "/", "127.0.0.1", ":",
                                ToString(server[i].port), "/", "callback">>)
      /\ loginUrl[i].mcp_callback =
           <<"http", "%3A", "%2F", "%2F", "127.0.0.1", "%3A",
             ToString(server[i].port), "%2F", "callback">>
      /\ loginUrl[i].host = ListenHost

\* C22: every token getAgentToken returns while a human credential is
\* stored was minted with that credential.  A call that returns the token it
\* has just minted passed the credential stored at its return to the issuer;
\* and a call served from the cache the token of the mint that returned last
\* is served a token minted with the credential stored now: once setUserToken
\* has replaced the credential, no token of the previous one is handed out.
C22_TokenMintedWithStoredCredential ==
  [][/\ (lastRet' # lastRet /\ lastRet'.kind = "mint" /\ ~Falsy(userToken')) =>
          lastRet'.user = userToken'
     /\ \A a \in AgentIds :
          (GetAgentTokenHit(a) /\ lastRet.kind = "mint" /\ lastRet.agentId = a
             /\ lastRet.token = agentTokens[a].token /\ ~Falsy(userToken)) =>
            lastRet.user = userToken]_vars

\* C23: whatever login calls are made, overlapping ones included, at most
\* one callback listener is open at any moment, and once a login call has
\* completed and stored its credential no other login attempt overwrites it.
C23_OneListenerOneCredential ==
  [][/\ Cardinality({i \in Attempts : server'[i].state = "listening"}) <= 1
     /\ (\E i \in Attempts : tool[i] = "success") => userToken' = userToken]_vars

====
